---- MODULE Spec2Model ----
(***************************************************************************)
(* Model of the OpenCode metrics exporter (src/index.js, lines 1-623):     *)
(* the connect-and-listen cycle, the stream dispatcher, the periodic poll, *)
(* the dedup ledger, the session registry and the error buffer.            *)
(*                                                                         *)
(* Every action is one synchronous run of the code between two awaits:     *)
(* the response of an awaited request (or a timer firing) and everything   *)
(* the code does with it until it awaits again or returns.                 *)
(***************************************************************************)
EXTENDS Integers, Sequences, FiniteSets, TLC

(***************************************************************************)
(* Bounds of the model.  The thresholds of the code (10000 / 5000 ledger   *)
(* keys, 100 errors, 24 h) are scaled down to these so that the cases that *)
(* cross them are reachable; the code's comparisons are kept as they are.  *)
(***************************************************************************)
MaxMsgId == 3
MaxSessions == 2
MaxListLen == 2
LedgerCap == 2
ErrorCap == 2
RetentionTicks == 2
MaxTime == 4
MaxErrorCount == 3
MaxMessageCount == 4
MaxSessionCount == 4
MaxReconnects == 1
MaxFailures == 6
MaxTextLen == 7
MaxToolCount == 3

\* src/index.js:441-442 and 582-583: size > 10000, slice(0, 5000)
LEDGER_LIMIT == LedgerCap
LEDGER_EVICT == LedgerCap \div 2
\* src/index.js:99-100
MAX_ERRORS == ErrorCap
ERROR_RETENTION_MS == RetentionTicks

SessIds == 1..MaxSessions
MsgIds == 1..MaxMsgId
\* runs of pollSessions that can be in flight at once: a tick still suspended
\* at an await and the one the interval starts next
Ticks == {1, 2}
Roles == {"assistant", "user"}
TokenTypes == {"input", "output", "cacheRead", "cacheCreation", "reasoning"}
Provenance == {"historical", "live"}
ErrorTypes == {"connection", "upstream"}

\* the token usage the server reports for a message (fixed per message id)
TokensOf(id) ==
  IF id = 1
    THEN [input |-> 10, output |-> 5, cacheRead |-> 2, cacheWrite |-> 1, reasoning |-> 3]
    ELSE [input |-> 7, output |-> 3, cacheRead |-> 0, cacheWrite |-> 0, reasoning |-> 0]

\* one element of a GET /session/{id}/message array, or the payload of a
\* message event: info present or not, and the fields of info the code reads
MsgShapes ==
  [info : BOOLEAN, id : MsgIds, role : Roles, finish : BOOLEAN, hasTokens : BOOLEAN]
\* the elements of a history: every shape with info, and one without
HistoryShapes ==
  { m \in MsgShapes : m.info \/ (m.id = 1 /\ m.role = "user" /\ ~m.finish /\ ~m.hasTokens) }

\* one element of a GET /session array
SessionEntry(s) == [id |-> s, slug |-> "", title |-> "T", directory |-> "/"]

VARIABLES
  activeSessions,       \* Set of session ids                     (line 95)
  sessionMetadata,      \* Map id -> {slug, title, directory}     (line 96)
  processedMessages,    \* Set of dedup keys, in insertion order  (line 97)
  recentErrors,         \* Array of {timestamp, type}             (line 98)
  isServiceRunning,     \* liveness value                         (line 80)
  reconnectAttempts,    \*                                        (line 147)
  pollInterval,         \* TRUE when the handle is set            (line 593)
  pollTimers,           \* number of armed setInterval timers
  retryTimers,          \* number of pending setTimeout(connectAndListen)
  sessionCounter,       \* cumulative value of opencode.session.count
  messageCounter,       \* cumulative value per provenance
  tokenCounter,         \* cumulative value per provenance and token type
  toolUseCounter,       \* cumulative value per status: historical or live
  errorCounter,         \* cumulative value per error type
  activeSessionsGauge,  \* cumulative value of the up/down counter
  clPc,                 \* where connectAndListen is suspended
  sessions,             \* connectAndListen's local: the session list
  bfIndex,              \* the backfill loop's position in sessions
  totalMessages,        \* backfill accumulator                   (line 203)
  totalTokens,          \* backfill accumulator                   (line 204)
  toolCounts,           \* backfill accumulator, one tool name   (line 205)
  pollPc,               \* per tick: where that run of pollSessions is suspended
  pollList,             \* per tick: pollSessions' local, the session list
  pollIndex,            \* per tick: the poll loop's position in its list
  buffer,               \* the stream loop's carry-over buffer     (line 291)
  now,                  \* Date.now()
  hist                  \* history variables (observations only, never read by the code)

vars ==
  << activeSessions, sessionMetadata, processedMessages, recentErrors,
     isServiceRunning, reconnectAttempts, pollInterval, pollTimers, retryTimers,
     sessionCounter, messageCounter, tokenCounter, toolUseCounter, errorCounter,
     activeSessionsGauge, clPc, sessions, bfIndex, totalMessages, totalTokens,
     toolCounts,
     pollPc, pollList, pollIndex, buffer, now, hist >>


(***************************************************************************)
(* Pure helpers                                                            *)
(***************************************************************************)
Range(q) == { q[i] : i \in 1..Len(q) }
Min(a, b) == IF a < b THEN a ELSE b
LastN(q, n) == IF Len(q) <= n THEN q ELSE SubSeq(q, Len(q) - n + 1, Len(q))

\* `${id}-${role}`: one key per (id, role)
msgKey(m) == << m.id, m.role >>
Keys == MsgIds \X Roles

\* Set.has / Set.add on the insertion-ordered ledger
Has(pm, k) == \E i \in 1..Len(pm) : pm[i] = k
Add(pm, k) == IF Has(pm, k) THEN pm ELSE Append(pm, k)

\* faulty variant of sizeGuardedEvict: the most recently inserted keys go
evictNewest(pm) ==
  IF Len(pm) > LEDGER_LIMIT THEN SubSeq(pm, 1, Len(pm) - LEDGER_EVICT) ELSE pm

\* if (size > 10000) delete [...set].slice(0, 5000)
sizeGuardedEvict(pm) ==
  IF Len(pm) > LEDGER_LIMIT THEN SubSeq(pm, LEDGER_EVICT + 1, Len(pm)) ELSE pm

\* role !== "assistant" || !tokens || !finish  ->  not counted
passesGate(m) == m.role = "assistant" /\ m.hasTokens /\ m.finish

\* the eligibility rule of the specification, used by the history variables only
Eligible(m) == m.info /\ m.role = "assistant" /\ m.finish /\ m.hasTokens

ZeroTokens == [ t \in TokenTypes |-> 0 ]
ZeroTotals == [input |-> 0, output |-> 0, cacheRead |-> 0, cacheWrite |-> 0]

\* the history of one counting: the identity counted once more, and whether
\* the observation counted was eligible
noteCounted(h, m) ==
  [h EXCEPT !.counted[msgKey(m)] = @ + 1,
            !.ineligible = @ \/ ~Eligible([m EXCEPT !.info = TRUE])]

\* messageCounter.add(1, ...) and the five tokenCounter.add calls of the live
\* channels (stream: lines 451-477, poll: lines 545-570)
countLive(acc, m) ==
  LET t == TokensOf(m.id) IN
  [acc EXCEPT
     !.mc["live"] = @ + 1,
     !.tc["live"] = [ @ EXCEPT !["input"] = @ + t.input,
                               !["output"] = @ + t.output,
                               !["cacheRead"] = @ + t.cacheRead,
                               !["cacheCreation"] = @ + t.cacheWrite,
                               !["reasoning"] = @ + t.reasoning ],
     !.h = noteCounted(@, m)]

\* processMessage(properties): the accounting state acc is
\* [pm: processedMessages, mc: messageCounter, tc: tokenCounter, h: hist]
processMessage(acc, m) ==
  IF ~passesGate(m) THEN acc
  ELSE IF Has(acc.pm, msgKey(m)) THEN acc
  ELSE countLive([acc EXCEPT !.pm = sizeGuardedEvict(Add(@, msgKey(m)))], m)

\* faulty variant of pollMessage: the ledger lookup is left out, as if the key
\* had been looked up before an await and inserted after it
pollMessageUnchecked(acc, m) ==
  IF ~m.info THEN acc
  ELSE IF ~passesGate(m) THEN acc
  ELSE countLive([acc EXCEPT !.pm = Add(@, msgKey(m))], m)

\* the body of pollSessions' loop over one message of a history
pollMessage(acc, m) ==
  IF ~m.info THEN acc
  ELSE IF ~passesGate(m) THEN acc
  ELSE IF Has(acc.pm, msgKey(m)) THEN acc
  ELSE countLive([acc EXCEPT !.pm = Add(@, msgKey(m))], m)

RECURSIVE pollMessages(_, _)
pollMessages(acc, msgs) ==
  IF msgs = << >> THEN acc
  ELSE pollMessages(pollMessage(acc, Head(msgs)), Tail(msgs))

\* if (msg.parts): the number of parts of type "tool" that name a tool
\* (lines 232-238); a message without a parts array has none
toolParts(m) == IF "parts" \in DOMAIN m THEN m.parts ELSE 0

\* the body of the backfill loop over one message of a history; the
\* accounting state bf is [pm, totalMessages, totalTokens, toolCounts, h]
backfillMessage(bf, m) ==
  IF ~m.info THEN bf
  ELSE LET t == TokensOf(m.id)
           counted ==
             IF Has(bf.pm, msgKey(m)) THEN bf
             ELSE [bf EXCEPT
                     !.pm = Add(@, msgKey(m)),
                     !.totalMessages = @ + 1,
                     !.totalTokens = IF m.hasTokens
                                       THEN [input |-> @.input + t.input,
                                             output |-> @.output + t.output,
                                             cacheRead |-> @.cacheRead + t.cacheRead,
                                             cacheWrite |-> @.cacheWrite + t.cacheWrite]
                                       ELSE @,
                     !.h = [noteCounted(@, m) EXCEPT !.backfilled = @ \cup {msgKey(m)}]]
       IN [counted EXCEPT !.toolCounts = @ + toolParts(m)]

RECURSIVE backfillMessages(_, _)
backfillMessages(bf, msgs) ==
  IF msgs = << >> THEN bf
  ELSE backfillMessages(backfillMessage(bf, Head(msgs)), Tail(msgs))

\* faulty variant of emitBackfill: the totals are added with the live labels
emitBackfillAsLive(mc, tc, tm, tt) ==
  [mc |-> [mc EXCEPT !["live"] = @ + tm],
   tc |-> [tc EXCEPT !["live"] =
             [ @ EXCEPT !["input"] = @ + tt.input,
                        !["output"] = @ + tt.output,
                        !["cacheRead"] = @ + tt.cacheRead,
                        !["cacheCreation"] = @ + tt.cacheWrite ]]]

\* lines 269-271: toolUseCounter.add(count, {tool, status: "historical"})
emitToolCounts(tuc, tools) == [tuc EXCEPT !["historical"] = @ + tools]

\* lines 246-263: the backfilled totals are added with the historical labels
emitBackfill(mc, tc, tm, tt) ==
  [mc |-> [mc EXCEPT !["historical"] = @ + tm],
   tc |-> [tc EXCEPT !["historical"] =
             [ @ EXCEPT !["input"] = @ + tt.input,
                        !["output"] = @ + tt.output,
                        !["cacheRead"] = @ + tt.cacheRead,
                        !["cacheCreation"] = @ + tt.cacheWrite ]]]

\* faulty variant of pushError: the push without the trimming loop
pushErrorUntrimmed(errs, type, t) == Append(errs, [timestamp |-> t, type |-> type])

\* recentErrors.push(...); while (length > MAX_ERRORS) shift()
RECURSIVE trimErrors(_)
trimErrors(errs) == IF Len(errs) > MAX_ERRORS THEN trimErrors(Tail(errs)) ELSE errs
pushError(errs, type, t) == trimErrors(Append(errs, [timestamp |-> t, type |-> type]))

\* faulty variant of pruneErrors: the age compared with >= instead of >
RECURSIVE pruneErrorsInclusive(_, _)
pruneErrorsInclusive(errs, t) ==
  IF Len(errs) > 0 /\ t - errs[1].timestamp >= ERROR_RETENTION_MS
    THEN pruneErrorsInclusive(Tail(errs), t)
    ELSE errs

\* while (length > 0 && now - recentErrors[0].timestamp > ERROR_RETENTION_MS) shift()
RECURSIVE pruneErrors(_, _)
pruneErrors(errs, t) ==
  IF Len(errs) > 0 /\ t - errs[1].timestamp > ERROR_RETENTION_MS
    THEN pruneErrors(Tail(errs), t)
    ELSE errs

\* Math.min(1000 * Math.pow(2, reconnectAttempts), MAX_RECONNECT_DELAY)
MAX_RECONNECT_DELAY == 30000
\* faulty variant of retryDelay: the delay without the cap
retryDelayUncapped(attempts) == 1000 * (2 ^ attempts)
retryDelay(attempts) == Min(1000 * (2 ^ attempts), MAX_RECONNECT_DELAY)


\* startPolling / stopPolling on the pair (handle, armed timers)
startPolling(handle, timers) == [pollInterval |-> TRUE, pollTimers |-> timers + 1]
\* faulty variant of stopPolling: the handle is dropped, the interval not cleared
stopPollingKeepsTimer(handle, timers) == [pollInterval |-> FALSE, pollTimers |-> timers]

\* faulty variant of scheduleRetry: two successors are scheduled
scheduleRetryTwice(timers) == timers + 2

\* setTimeout(connectAndListen, delay), line 337: one more pending successor
scheduleRetry(timers) == timers + 1

\* lines 600-605: if (pollInterval) { clearInterval(pollInterval); pollInterval = null }
stopPolling(handle, timers) ==
  IF handle THEN [pollInterval |-> FALSE, pollTimers |-> timers - 1]
            ELSE [pollInterval |-> handle, pollTimers |-> timers]

\* sessionMetadata.set(id, {...}) for every entry of a list, in order
RECURSIVE setAll(_, _)
setAll(md, list) ==
  IF list = << >> THEN md
  ELSE LET s == Head(list)
           dom == DOMAIN md \cup {s}
       IN setAll([ x \in dom |-> IF x = s THEN SessionEntry(s) ELSE md[x] ], Tail(list))

\* faulty variant of dropKey: the entry stays in the map
dropKeyKeeps(md, s) == md

\* Map.delete
dropKey(md, s) == [ x \in DOMAIN md \ {s} |-> md[x] ]

\* faulty variant of resetTracking: the gauge is lowered by one, not by the count
resetTrackingByOne(gauge, active, meta) ==
  IF Cardinality(active) > 0
    THEN [gauge |-> gauge - 1, active |-> {}, meta |-> << >>]
    ELSE [gauge |-> gauge, active |-> active, meta |-> meta]

\* lines 172-178: previousCount = activeSessions.size; if (previousCount > 0)
\* { gauge.add(-previousCount); activeSessions.clear(); sessionMetadata.clear() }
resetTracking(gauge, active, meta) ==
  LET previousCount == Cardinality(active) IN
  IF previousCount > 0
    THEN [gauge |-> gauge - previousCount, active |-> {}, meta |-> << >>]
    ELSE [gauge |-> gauge, active |-> active, meta |-> meta]

\* history of a removal from the registry: for every tick that is suspended
\* with a session list, the removed ids its loop has still to come to
noteRemoved(h, removed) ==
  [h EXCEPT !.stale =
     [ t \in Ticks |->
         IF pollPc[t] = "msgs"
           THEN @[t] \cup (removed \cap { pollList[t][i] :
                                            i \in (pollIndex[t] + 1)..Len(pollList[t]) })
           ELSE @[t] ]]

\* the payload of a session.updated event: whether it carries an id, and the
\* three fields the code reads ("" stands for an absent or empty value)
UpdateEvents ==
  [hasId : BOOLEAN, id : SessIds, title : {"", "B"}, directory : {"", "/b"},
   slug : {"", "b"}]

\* the session.updated payloads that carry an id and a title or nothing
TitleUpdates == { f \in UpdateEvents : f.hasId /\ f.directory = "" /\ f.slug = "" }

\* faulty variant of updateMeta: every field is assigned, carried or not
updateMetaBlanking(meta, ev) ==
  [meta EXCEPT !.title = ev.title, !.directory = ev.directory, !.slug = ev.slug]

\* if (u.title) meta.title = u.title; likewise directory and slug (lines 370-372)
updateMeta(meta, ev) ==
  [meta EXCEPT !.title = IF ev.title # "" THEN ev.title ELSE @,
               !.directory = IF ev.directory # "" THEN ev.directory ELSE @,
               !.slug = IF ev.slug # "" THEN ev.slug ELSE @]

(***************************************************************************)
(* Initial state: the module has run to connectAndListen()'s first await.  *)
(***************************************************************************)
Init ==
  /\ activeSessions = {}
  /\ sessionMetadata = << >>
  /\ processedMessages = << >>
  /\ recentErrors = << >>
  /\ isServiceRunning = 0
  /\ reconnectAttempts = 0
  /\ pollInterval = FALSE
  /\ pollTimers = 0
  /\ retryTimers = 0
  /\ sessionCounter = 0
  /\ messageCounter = [ p \in Provenance |-> 0 ]
  /\ tokenCounter = [ p \in Provenance |-> ZeroTokens ]
  /\ toolUseCounter = [ p \in Provenance |-> 0 ]
  /\ errorCounter = [ t \in ErrorTypes |-> 0 ]
  /\ activeSessionsGauge = 0
  /\ clPc = "health"
  /\ sessions = << >>
  /\ bfIndex = 0
  /\ totalMessages = 0
  /\ totalTokens = ZeroTotals
  /\ toolCounts = 0
  /\ pollPc = [t \in Ticks |-> "idle"]
  /\ pollList = [t \in Ticks |-> << >>]
  /\ pollIndex = [t \in Ticks |-> 0]
  /\ buffer = << >>
  /\ now = 0
  /\ hist = [ counted |-> [ k \in Keys |-> 0 ],
              ineligible |-> FALSE,
              faults |-> 0,
              lastFault |-> "none",
              refValid |-> FALSE,
              refGauge |-> 0,
              refSet |-> {},
              errLog |-> << >>,
              emitTime |-> -1,
              emitLogLen |-> 0,
              emitted |-> << >>,
              backfilled |-> {},
              skipped |-> [ backfill |-> {}, poll |-> {} ],
              pollFailed |-> FALSE,
              delay |-> 0,
              text |-> << >>,
              lines |-> << >>,
              split |-> FALSE,
              stale |-> [ t \in Ticks |-> {} ] ]

\* every run is cut where a counter would pass its bound
MessageTotal == messageCounter["historical"] + messageCounter["live"] + totalMessages
ErrorTotal == errorCounter["connection"] + errorCounter["upstream"]
ToolTotal == toolUseCounter["historical"] + toolUseCounter["live"] + toolCounts
WithinBounds ==
  /\ MessageTotal <= MaxMessageCount
  /\ sessionCounter <= MaxSessionCount
  /\ ErrorTotal <= MaxFailures
  /\ ToolTotal <= MaxToolCount
  /\ Len(hist.text) <= MaxTextLen
  /\ now <= MaxTime

\* fewer than MaxErrorCount errors so far: the guard of the failures and of
\* the error events in the specifications that follow the error buffer
FewErrors == ErrorTotal < MaxErrorCount

registryVars == << activeSessions, sessionMetadata, activeSessionsGauge, sessionCounter >>
ledgerVars == << processedMessages, messageCounter, tokenCounter, toolUseCounter >>
backfillVars == << sessions, bfIndex, totalMessages, totalTokens, toolCounts, buffer >>
pollVars == << pollPc, pollList, pollIndex >>
timerVars == << pollInterval, pollTimers >>
errorVars == << recentErrors, errorCounter >>

(***************************************************************************)
(* connectAndListen                                                        *)
(***************************************************************************)
\* history: the environment makes an awaited request fail
fault(kind) == [hist EXCEPT !.faults = @ + 1, !.lastFault = kind]

\* faulty variant of connectionFailure: the catch block without stopPolling()
connectionFailureKeepsPolling(h) ==
  /\ errorCounter' = [errorCounter EXCEPT !["connection"] = @ + 1]
  /\ isServiceRunning' = 0
  /\ UNCHANGED << pollInterval, pollTimers >>
  /\ recentErrors' = pushError(recentErrors, "connection", now)
  /\ reconnectAttempts' = reconnectAttempts + 1
  /\ retryTimers' = retryTimers + 1
  /\ clPc' = "backoff"
  /\ hist' = [h EXCEPT
       !.errLog = Append(@, [timestamp |-> now, type |-> "connection"])]

\* the catch block, lines 316-338; h is the history to continue from
connectionFailure(h) ==
  LET stopped == stopPolling(pollInterval, pollTimers) IN
  /\ errorCounter' = [errorCounter EXCEPT !["connection"] = @ + 1]
  /\ isServiceRunning' = 0
  /\ pollInterval' = stopped.pollInterval
  /\ pollTimers' = stopped.pollTimers
  /\ recentErrors' = pushError(recentErrors, "connection", now)
  /\ reconnectAttempts' = reconnectAttempts + 1
  /\ retryTimers' = scheduleRetry(retryTimers)
  /\ clPc' = "backoff"
  /\ hist' = [h EXCEPT
       !.errLog = Append(@, [timestamp |-> now, type |-> "connection"]),
       \* the delay handed to setTimeout (line 337)
       !.delay = retryDelay(reconnectAttempts + 1),
       \* the gauge and registry as they were when the connection was lost
       !.refValid = IF clPc \in {"open", "reading"} THEN TRUE ELSE @,
       !.refGauge = IF clPc \in {"open", "reading"} THEN activeSessionsGauge ELSE @,
       !.refSet = IF clPc \in {"open", "reading"} THEN activeSessions ELSE @]

\* setTimeout(connectAndListen, delay) fires: lines 158-163
RetryTimer ==
  /\ clPc = "backoff"
  /\ retryTimers > 0
  /\ retryTimers' = retryTimers - 1
  /\ clPc' = "health"
  /\ UNCHANGED << registryVars, ledgerVars, backfillVars, pollVars, timerVars,
                  errorVars, isServiceRunning, reconnectAttempts, now, hist >>
  /\ WithinBounds'

\* the health probe answers: lines 163-181
HealthResponse(outcome) ==
  /\ clPc = "health"
  /\ IF outcome = "healthy"
       THEN /\ reconnectAttempts' = 0
            /\ isServiceRunning' = 1
            /\ LET reset == resetTracking(activeSessionsGauge, activeSessions,
                                          sessionMetadata)
               IN /\ activeSessionsGauge' = reset.gauge
                  /\ activeSessions' = reset.active
                  /\ sessionMetadata' = reset.meta
            /\ clPc' = "sessions"
            /\ hist' = [noteRemoved(hist, activeSessions) EXCEPT !.delay = 0]
            /\ UNCHANGED << sessionCounter, ledgerVars, backfillVars, pollVars,
                            timerVars, errorVars, retryTimers, now >>
       ELSE /\ connectionFailure(fault(outcome))
            /\ UNCHANGED << registryVars, ledgerVars, backfillVars, pollVars, now >>
  /\ WithinBounds'


\* lines 246-279: emit the backfilled totals, start polling, open the stream
finishBackfill(tm, tt, tools) ==
  LET out == emitBackfill(messageCounter, tokenCounter, tm, tt)
      started == startPolling(pollInterval, pollTimers)
  IN /\ messageCounter' = out.mc
     /\ tokenCounter' = out.tc
     /\ toolUseCounter' = emitToolCounts(toolUseCounter, tools)
     /\ pollInterval' = started.pollInterval
     /\ pollTimers' = started.pollTimers
     /\ clPc' = "open"
     /\ sessions' = << >>
     /\ bfIndex' = 0
     /\ totalMessages' = 0
     /\ totalTokens' = ZeroTotals
     /\ toolCounts' = 0
     /\ UNCHANGED buffer

\* GET /session answers: lines 181-209.  resp.kind is "error", "notarray" or
\* "array"; resp.items is the list of session ids of the array
SessionsResponse(resp) ==
  /\ clPc = "sessions"
  /\ CASE resp.kind = "error" ->
            /\ connectionFailure(fault("sessions"))
            /\ UNCHANGED << registryVars, ledgerVars, backfillVars, pollVars, now >>
       [] resp.kind = "notarray" ->
            /\ finishBackfill(0, ZeroTotals, 0)
            /\ UNCHANGED << registryVars, processedMessages, pollVars, errorVars,
                            isServiceRunning, reconnectAttempts, retryTimers, now, hist >>
       [] OTHER ->
            /\ activeSessions' = activeSessions \cup Range(resp.items)
            /\ sessionMetadata' = setAll(sessionMetadata, resp.items)
            /\ activeSessionsGauge' = activeSessionsGauge + Len(resp.items)
            /\ sessionCounter' = sessionCounter + Len(resp.items)
            /\ IF resp.items = << >>
                 THEN finishBackfill(0, ZeroTotals, 0)
                 ELSE /\ sessions' = resp.items
                      /\ bfIndex' = 1
                      /\ totalMessages' = 0
                      /\ totalTokens' = ZeroTotals
                      /\ toolCounts' = 0
                      /\ clPc' = "backfill"
                      /\ UNCHANGED << messageCounter, tokenCounter, toolUseCounter,
                                      timerVars, buffer >>
            /\ hist' = [hist EXCEPT !.skipped.backfill = {}]
            /\ UNCHANGED << processedMessages, pollVars, errorVars, isServiceRunning,
                            reconnectAttempts, retryTimers, now >>
  /\ WithinBounds'

\* the end of one iteration of the backfill loop: the next session's history
\* is awaited, or the loop is over and lines 246-279 run
backfillAdvance(bf) ==
  /\ processedMessages' = bf.pm
  /\ IF bfIndex < Len(sessions)
       THEN /\ bfIndex' = bfIndex + 1
            /\ totalMessages' = bf.totalMessages
            /\ totalTokens' = bf.totalTokens
            /\ toolCounts' = bf.toolCounts
            /\ UNCHANGED << sessions, buffer, clPc, messageCounter, tokenCounter,
                            toolUseCounter,
                            timerVars >>
       ELSE finishBackfill(bf.totalMessages, bf.totalTokens, bf.toolCounts)
  /\ UNCHANGED << registryVars, pollVars, errorVars, isServiceRunning,
                  reconnectAttempts, retryTimers, now >>

\* faulty variant of backfillSkip: the failed fetch reaches the outer catch
backfillSkipAborts(start) ==
  /\ connectionFailure(fault("history"))
  /\ UNCHANGED << registryVars, ledgerVars, backfillVars, pollVars, now >>

\* lines 241-244: catch (e) { } of the loop body, the session is skipped
backfillSkip(start) ==
  /\ hist' = [hist EXCEPT !.skipped.backfill = @ \cup {sessions[bfIndex]}]
  /\ backfillAdvance(start)

\* GET /session/{id}/message answers inside the backfill loop: lines 207-279.
\* resp.items is the array of messages
BackfillResponse(resp) ==
  /\ clPc = "backfill"
  /\ LET start == [pm |-> processedMessages, totalMessages |-> totalMessages,
                   totalTokens |-> totalTokens, toolCounts |-> toolCounts, h |-> hist]
         bf == IF resp.kind = "array" THEN backfillMessages(start, resp.items) ELSE start
     IN IF resp.kind = "error"
          THEN backfillSkip(start)
          ELSE /\ hist' = bf.h
               /\ backfillAdvance(bf)
  /\ WithinBounds'

\* fetch(`${OPENCODE_URL}/event`) answers: lines 283-294
StreamOpen(ok) ==
  /\ clPc = "open"
  /\ IF ok
       THEN /\ clPc' = "reading"
            /\ buffer' = << >>
            /\ hist' = [hist EXCEPT !.text = << >>, !.lines = << >>, !.split = FALSE]
            /\ UNCHANGED << registryVars, ledgerVars, sessions, bfIndex, totalMessages,
                            totalTokens, toolCounts, pollVars, timerVars, errorVars,
                            isServiceRunning, reconnectAttempts, retryTimers, now >>
       ELSE /\ connectionFailure(fault("open"))
            /\ UNCHANGED << registryVars, ledgerVars, backfillVars, pollVars, now >>
  /\ WithinBounds'

\* reader.read() rejects: lines 294, 316-338
StreamReadError ==
  /\ clPc = "reading"
  /\ connectionFailure(fault("read"))
  /\ UNCHANGED << registryVars, ledgerVars, backfillVars, pollVars, now >>
  /\ WithinBounds'

\* reader.read() reports done: lines 295-299, then the function returns
StreamDone ==
  /\ clPc = "reading"
  /\ LET stopped == stopPolling(pollInterval, pollTimers) IN
     /\ pollInterval' = stopped.pollInterval
     /\ pollTimers' = stopped.pollTimers
  /\ clPc' = "returned"
  /\ UNCHANGED << registryVars, ledgerVars, backfillVars, pollVars, errorVars,
                  isServiceRunning, reconnectAttempts, retryTimers, now, hist >>
  /\ WithinBounds'

(***************************************************************************)
(* The stream loop on the text of the stream, lines 301-314.  A text is a  *)
(* sequence of characters: NL is the newline, "d" stands for the marker    *)
(* "data: ", "e" for the JSON text of an error event and "u" for the JSON  *)
(* text of a record whose type processEvent has no case for.               *)
(***************************************************************************)
NL == "\n"
Chars == {"d", "e", "u", NL}

\* faulty variant of splitLines: the unterminated fragment is handed over too
RECURSIVE splitLinesEager(_, _, _)
splitLinesEager(txt, cur, acc) ==
  IF txt = << >> THEN [lines |-> IF cur = << >> THEN acc ELSE Append(acc, cur),
                       rest |-> << >>]
  ELSE IF Head(txt) = NL THEN splitLinesEager(Tail(txt), << >>, Append(acc, cur))
  ELSE splitLinesEager(Tail(txt), Append(cur, Head(txt)), acc)

\* lines = buffer.split("\n"); buffer = lines.pop() || "": scanning txt, cur is
\* the line being read and acc the lines already terminated
RECURSIVE splitLines(_, _, _)
splitLines(txt, cur, acc) ==
  IF txt = << >> THEN [lines |-> acc, rest |-> cur]
  ELSE IF Head(txt) = NL THEN splitLines(Tail(txt), << >>, Append(acc, cur))
  ELSE splitLines(Tail(txt), Append(cur, Head(txt)), acc)

\* line.startsWith("data: ")
startsWithData(line) == line # << >> /\ Head(line) = "d"

\* JSON.parse(line.slice(6)): the record's type, or "throws"
parseData(line) ==
  LET payload == Tail(line) IN
  CASE payload = << "e" >> -> "error"
    [] payload = << "u" >> -> "unknown"
    [] OTHER -> "throws"

\* processEvent(data) on the state st = [ec: errorCounter, errs: recentErrors,
\* h: hist] for the record types of the text: case "error" (lines 396-415),
\* and no case for the other type
processEvent(st, type) ==
  IF type = "error"
    THEN [ec |-> [st.ec EXCEPT !["upstream"] = @ + 1],
          errs |-> pushError(st.errs, "upstream", now),
          h |-> [st.h EXCEPT !.errLog = Append(@, [timestamp |-> now,
                                                   type |-> "upstream"])]]
    ELSE st

\* faulty variant of dispatchLine: a data line that does not parse is
\* recorded as an error event
dispatchLineCountsFailure(st, line) ==
  IF ~startsWithData(line) THEN st
  ELSE IF parseData(line) = "throws" THEN processEvent(st, "error")
  ELSE processEvent(st, parseData(line))

\* the body of for (const line of lines), lines 305-314
dispatchLine(st, line) ==
  IF ~startsWithData(line) THEN st
  ELSE IF parseData(line) = "throws" THEN st
  ELSE processEvent(st, parseData(line))

RECURSIVE dispatchLines(_, _)
dispatchLines(st, lines) ==
  IF lines = << >> THEN st
  ELSE dispatchLines(dispatchLine(st, Head(lines)), Tail(lines))

\* reader.read() yields a chunk: lines 294-315
StreamChunk(chunk) ==
  /\ clPc = "reading"
  /\ LET parts == splitLines(buffer \o chunk, << >>, << >>)
         st == dispatchLines([ec |-> errorCounter, errs |-> recentErrors, h |-> hist],
                             parts.lines)
     IN /\ buffer' = parts.rest
        /\ errorCounter' = st.ec
        /\ recentErrors' = st.errs
        /\ hist' = [st.h EXCEPT !.text = @ \o chunk,
                                !.lines = @ \o parts.lines,
                                !.split = @ \/ buffer # << >>]
  /\ UNCHANGED << registryVars, ledgerVars, sessions, bfIndex, totalMessages,
                  totalTokens, toolCounts, pollVars, timerVars, isServiceRunning,
                  reconnectAttempts, retryTimers, clPc, now >>
  /\ WithinBounds'

(***************************************************************************)
(* processEvent: one data line of a chunk, lines 301-314 and 341-420       *)
(***************************************************************************)
\* case "session.created": hasId is whether the payload carries an id
StreamSessionCreated(hasId, s) ==
  /\ clPc = "reading"
  /\ sessionCounter' = sessionCounter + 1
  /\ IF hasId
       THEN /\ activeSessions' = activeSessions \cup {s}
            /\ sessionMetadata' = setAll(sessionMetadata, << s >>)
            /\ activeSessionsGauge' = activeSessionsGauge + 1
       ELSE UNCHANGED << activeSessions, sessionMetadata, activeSessionsGauge >>
  /\ UNCHANGED << ledgerVars, backfillVars, pollVars, timerVars, errorVars,
                  isServiceRunning, reconnectAttempts, retryTimers, clPc, now, hist >>
  /\ WithinBounds'

\* case "session.updated": lines 366-374
StreamSessionUpdated(ev) ==
  /\ clPc = "reading"
  /\ IF ev.hasId /\ ev.id \in DOMAIN sessionMetadata
       THEN sessionMetadata' = [sessionMetadata EXCEPT ![ev.id] = updateMeta(@, ev)]
       ELSE UNCHANGED sessionMetadata
  /\ UNCHANGED << activeSessions, activeSessionsGauge, sessionCounter, ledgerVars,
                  backfillVars, pollVars, timerVars, errorVars, isServiceRunning,
                  reconnectAttempts, retryTimers, clPc, now, hist >>
  /\ WithinBounds'

\* case "session.deleted"
StreamSessionDeleted(s) ==
  /\ clPc = "reading"
  /\ IF s \in activeSessions
       THEN /\ activeSessions' = activeSessions \ {s}
            /\ sessionMetadata' = dropKey(sessionMetadata, s)
            /\ activeSessionsGauge' = activeSessionsGauge - 1
            /\ hist' = noteRemoved(hist, {s})
       ELSE UNCHANGED << activeSessions, sessionMetadata, activeSessionsGauge, hist >>
  /\ UNCHANGED << sessionCounter, ledgerVars, backfillVars, pollVars, timerVars,
                  errorVars, isServiceRunning, reconnectAttempts, retryTimers, clPc,
                  now >>
  /\ WithinBounds'

\* case "message.created" / "message.updated"
StreamMessage(m) ==
  /\ clPc = "reading"
  /\ LET acc == processMessage([pm |-> processedMessages, mc |-> messageCounter,
                                tc |-> tokenCounter, h |-> hist], m)
     IN /\ processedMessages' = acc.pm
        /\ messageCounter' = acc.mc
        /\ tokenCounter' = acc.tc
        /\ hist' = acc.h
  /\ UNCHANGED << toolUseCounter, registryVars, backfillVars, pollVars, timerVars, errorVars,
                  isServiceRunning, reconnectAttempts, retryTimers, clPc, now >>
  /\ WithinBounds'

\* an event payload carried one level under an info field
Nested(fields) == [info |-> fields]

\* properties?.info || properties (lines 353, 367, 377, 426)
normalise(properties) ==
  IF "info" \in DOMAIN properties THEN properties.info ELSE properties

\* properties.name, undefined when the object has no such field
field(properties, name) ==
  IF name \in DOMAIN properties THEN properties[name] ELSE "undefined"

\* the payloads of part events: a tool invocation, a tool result, a text part
PartTypes == {"tool-invocation", "tool-result", "text"}
PartFields == [type : PartTypes, toolName : {"bash"}, state : {"completed"}]

\* processPart(properties), lines 480-497: type is read from properties itself
processPart(tuc, properties) ==
  IF field(properties, "type") \in {"tool-invocation", "tool-result"}
    THEN [tuc EXCEPT !["live"] = @ + 1]
    ELSE tuc

\* case "part.created" / "part.updated"
StreamPart(properties) ==
  /\ clPc = "reading"
  /\ toolUseCounter' = processPart(toolUseCounter, properties)
  /\ UNCHANGED << processedMessages, messageCounter, tokenCounter, registryVars,
                  backfillVars, pollVars, timerVars, errorVars, isServiceRunning,
                  reconnectAttempts, retryTimers, clPc, now, hist >>
  /\ WithinBounds'

\* case "error": lines 396-415
StreamError ==
  /\ clPc = "reading"
  /\ errorCounter' = [errorCounter EXCEPT !["upstream"] = @ + 1]
  /\ recentErrors' = pushError(recentErrors, "upstream", now)
  /\ hist' = [hist EXCEPT !.errLog = Append(@, [timestamp |-> now, type |-> "upstream"])]
  /\ UNCHANGED << registryVars, ledgerVars, backfillVars, pollVars, timerVars,
                  isServiceRunning, reconnectAttempts, retryTimers, clPc, now >>
  /\ WithinBounds'


(***************************************************************************)
(* pollSessions, lines 500-591                                             *)
(***************************************************************************)
\* setInterval(pollSessions, POLL_INTERVAL) fires: tick t runs to its first await.
\* The interval does not wait for the previous tick: another tick may still be
\* suspended at one of its awaits.
PollTimer(t) ==
  /\ pollTimers > 0
  /\ pollPc[t] = "idle"
  /\ pollPc' = [pollPc EXCEPT ![t] = "list"]
  /\ hist' = [hist EXCEPT !.pollFailed = FALSE]
  /\ UNCHANGED << registryVars, ledgerVars, backfillVars, pollList, pollIndex,
                  timerVars, errorVars, isServiceRunning, reconnectAttempts,
                  retryTimers, clPc, now >>
  /\ WithinBounds'

\* lines 509-519: the head of the loop body, up to the await of the history
pollRegister(s) ==
  /\ IF s \notin activeSessions
       THEN /\ activeSessions' = activeSessions \cup {s}
            /\ activeSessionsGauge' = activeSessionsGauge + 1
            /\ sessionCounter' = sessionCounter + 1
       ELSE UNCHANGED << activeSessions, activeSessionsGauge, sessionCounter >>
  /\ sessionMetadata' = setAll(sessionMetadata, << s >>)

\* faulty variant of pollCatch: the failure is handled as a connection failure
pollCatchReconnects(t) ==
  /\ connectionFailure([hist EXCEPT !.pollFailed = TRUE])
  /\ pollPc' = [pollPc EXCEPT ![t] = "idle"]
  /\ UNCHANGED << registryVars, ledgerVars, backfillVars, pollList, pollIndex, now >>

\* lines 586-590: the tick's catch block; the tick is over
pollCatch(t) ==
  /\ pollPc' = [pollPc EXCEPT ![t] = "idle"]
  /\ hist' = [hist EXCEPT !.pollFailed = TRUE]
  /\ UNCHANGED << registryVars, ledgerVars, backfillVars, pollList, pollIndex,
                  timerVars, errorVars, isServiceRunning, reconnectAttempts,
                  retryTimers, clPc, now >>

\* GET /session answers in tick t: lines 502-522 (or 577-590 for an empty list)
PollSessionsResponse(t, resp) ==
  /\ pollPc[t] = "list"
  /\ IF resp.kind = "error"
       THEN pollCatch(t)
       ELSE /\ IF resp.kind = "array" /\ resp.items # << >>
                 THEN /\ pollRegister(resp.items[1])
                      /\ pollList' = [pollList EXCEPT ![t] = resp.items]
                      /\ pollIndex' = [pollIndex EXCEPT ![t] = 1]
                      /\ pollPc' = [pollPc EXCEPT ![t] = "msgs"]
                      /\ UNCHANGED processedMessages
                 ELSE /\ processedMessages' =
                           IF resp.kind = "array" THEN sizeGuardedEvict(processedMessages)
                                                  ELSE processedMessages
                      /\ pollPc' = [pollPc EXCEPT ![t] = "idle"]
                      /\ UNCHANGED << registryVars, pollList, pollIndex >>
            /\ hist' = IF resp.kind = "array" THEN [hist EXCEPT !.skipped.poll = {}]
                                              ELSE hist
            /\ UNCHANGED << messageCounter, tokenCounter, toolUseCounter, backfillVars,
                            timerVars,
                            errorVars, isServiceRunning, reconnectAttempts, retryTimers,
                            clPc, now >>
  /\ WithinBounds'

\* GET /session/{id}/message answers in tick t: lines 522-585
PollMessagesResponse(t, resp) ==
  /\ pollPc[t] = "msgs"
  /\ LET start == [pm |-> processedMessages, mc |-> messageCounter,
                   tc |-> tokenCounter, h |-> hist]
         acc == IF resp.kind = "array" THEN pollMessages(start, resp.items) ELSE start
         h == IF resp.kind = "error"
                THEN [acc.h EXCEPT !.skipped.poll = @ \cup {pollList[t][pollIndex[t]]}]
                ELSE acc.h
     IN /\ messageCounter' = acc.mc
        /\ tokenCounter' = acc.tc
        /\ hist' = IF pollIndex[t] < Len(pollList[t])
                     THEN h
                     ELSE [h EXCEPT !.stale[t] = {}]
        /\ IF pollIndex[t] < Len(pollList[t])
             THEN /\ pollRegister(pollList[t][pollIndex[t] + 1])
                  /\ pollIndex' = [pollIndex EXCEPT ![t] = @ + 1]
                  /\ processedMessages' = acc.pm
                  /\ UNCHANGED << pollPc, pollList >>
             ELSE /\ processedMessages' = sizeGuardedEvict(acc.pm)
                  /\ pollPc' = [pollPc EXCEPT ![t] = "idle"]
                  /\ pollList' = [pollList EXCEPT ![t] = << >>]
                  /\ pollIndex' = [pollIndex EXCEPT ![t] = 0]
                  /\ UNCHANGED registryVars
  /\ UNCHANGED << toolUseCounter, backfillVars, timerVars, errorVars,
                  isServiceRunning, reconnectAttempts, retryTimers, clPc, now >>
  /\ WithinBounds'

(***************************************************************************)
(* The batch observable callback, lines 115-145, and the clock             *)
(***************************************************************************)
EmitCallback ==
  /\ recentErrors' = pruneErrors(recentErrors, now)
  /\ hist' = [hist EXCEPT !.emitTime = now,
                          !.emitLogLen = Len(hist.errLog),
                          !.emitted = pruneErrors(recentErrors, now)]
  /\ UNCHANGED << registryVars, ledgerVars, backfillVars, pollVars, timerVars,
                  errorCounter, isServiceRunning, reconnectAttempts, retryTimers,
                  clPc, now >>
  /\ WithinBounds'

Tick ==
  /\ now' = now + 1
  /\ UNCHANGED << registryVars, ledgerVars, backfillVars, pollVars, timerVars,
                  errorVars, isServiceRunning, reconnectAttempts, retryTimers,
                  clPc, hist >>
  /\ WithinBounds'


(***************************************************************************)
(* The environment: what the server may answer                             *)
(***************************************************************************)
SeqsUpTo(S, n) == UNION { [1..k -> S] : k \in 0..n }

Failed == [kind |-> "error", items |-> << >>]
NotArray == [kind |-> "notarray", items |-> << >>]
Array(list) == [kind |-> "array", items |-> list]

SessionLists == SeqsUpTo(SessIds, MaxListLen)
\* a history of no message or of one message; a pass over two sessions reads two
MessageLists == SeqsUpTo(HistoryShapes, 1)

(***************************************************************************)
(* Spec: the connection life cycle with every kind of failure, one session *)
(* and one message on the server.                                          *)
(***************************************************************************)
OneMessage == [info |-> TRUE, id |-> 1, role |-> "assistant", finish |-> TRUE,
               hasTokens |-> TRUE]
\* the completed assistant message with token usage that has id i
Msg(i) == [OneMessage EXCEPT !.id = i]
\* the same message when its history entry carries a parts array with one
\* part of type "tool"
ToolMsg(i) == [info |-> TRUE, id |-> i, role |-> "assistant", finish |-> TRUE,
               hasTokens |-> TRUE, parts |-> 1]

Next ==
  \/ RetryTimer
  \/ \E o \in {"healthy", "unhealthy", "error"} :
       (o = "healthy" \/ FewErrors) /\ HealthResponse(o)
  \/ \E r \in {Failed, NotArray, Array(<< >>), Array(<< 1 >>)} :
       (r.kind # "error" \/ FewErrors) /\ SessionsResponse(r)
  \/ \E r \in {Failed, NotArray, Array(<< OneMessage >>)} : BackfillResponse(r)
  \/ \E ok \in BOOLEAN : (ok \/ FewErrors) /\ StreamOpen(ok)
  \/ FewErrors /\ StreamReadError
  \/ StreamDone
  \/ StreamSessionCreated(TRUE, 1)
  \/ StreamSessionDeleted(1)
  \/ StreamMessage(OneMessage)
  \/ FewErrors /\ StreamError
  \/ PollTimer(1)
  \/ \E r \in {Failed, NotArray, Array(<< >>), Array(<< 1 >>)} : PollSessionsResponse(1, r)
  \/ \E r \in {Failed, NotArray, Array(<< OneMessage >>)} : PollMessagesResponse(1, r)

Spec == Init /\ [][Next]_vars

(***************************************************************************)
(* SpecLedger: message accounting.  Two sessions; every shape of message   *)
(* on the three channels.                                                  *)
(***************************************************************************)
NextLedger ==
  \/ RetryTimer
  \/ HealthResponse("healthy")
  \/ SessionsResponse(Array(<< 1, 2 >>))
  \/ \E l \in MessageLists : BackfillResponse(Array(l))
  \/ StreamOpen(TRUE)
  \/ hist.faults < MaxReconnects /\ StreamReadError
  \/ \E m \in HistoryShapes : StreamMessage(m)
  \/ PollTimer(1)
  \/ PollSessionsResponse(1, Array(<< 1, 2 >>))
  \/ \E l \in MessageLists : PollMessagesResponse(1, Array(l))

SpecLedger == Init /\ [][NextLedger]_vars

(***************************************************************************)
(* SpecRegistry: session tracking.  Every session list up to MaxListLen,   *)
(* session events, poll ticks and reconnects; the histories are empty.     *)
(***************************************************************************)
NextRegistry ==
  \/ RetryTimer
  \/ HealthResponse("healthy")
  \/ \E l \in SessionLists : SessionsResponse(Array(l))
  \/ \E r \in {Failed, Array(<< >>)} : BackfillResponse(r)
  \/ StreamOpen(TRUE)
  \/ hist.faults < MaxReconnects /\ StreamReadError
  \/ \E hasId \in BOOLEAN, s \in SessIds : StreamSessionCreated(hasId, s)
  \/ \E s \in SessIds : StreamSessionDeleted(s)
  \/ PollTimer(1)
  \/ \E l \in SessionLists : PollSessionsResponse(1, Array(l))
  \/ \E r \in {Failed, Array(<< >>)} : PollMessagesResponse(1, r)

SpecRegistry == Init /\ [][NextRegistry]_vars

\* SpecKeys: every operation that touches the registry or the metadata map,
\* over sessions 1 and 2: backfill, the three session events, poll ticks
\* whose list may differ from the registry, and one reconnect with its reset
KeyLists == {<< 1 >>, << 2 >>, << 1, 2 >>}

NextKeys ==
  \/ RetryTimer
  \/ HealthResponse("healthy")
  \/ \E l \in KeyLists : SessionsResponse(Array(l))
  \/ \E r \in {Failed, Array(<< >>)} : BackfillResponse(r)
  \/ StreamOpen(TRUE)
  \/ hist.faults = 0 /\ StreamReadError
  \/ \E hasId \in BOOLEAN, s \in {1, 2} : StreamSessionCreated(hasId, s)
  \/ \E f \in { g \in TitleUpdates : g.id \in {1, 2} } : StreamSessionUpdated(f)
  \/ \E s \in {1, 2} : StreamSessionDeleted(s)
  \/ PollTimer(1)
  \/ \E l \in KeyLists : PollSessionsResponse(1, Array(l))
  \/ \E r \in {Failed, Array(<< >>)} : PollMessagesResponse(1, r)

SpecKeys == Init /\ [][NextKeys]_vars

(***************************************************************************)
(* SpecErrors: the error buffer under connection failures, upstream error  *)
(* events, emissions and the passing of time.                              *)
(***************************************************************************)
NextErrors ==
  \/ RetryTimer
  \/ \E o \in {"healthy", "unhealthy", "error"} :
       (o = "healthy" \/ FewErrors) /\ HealthResponse(o)
  \/ \E r \in {Failed, Array(<< >>)} :
       (r.kind # "error" \/ FewErrors) /\ SessionsResponse(r)
  \/ \E ok \in BOOLEAN : (ok \/ FewErrors) /\ StreamOpen(ok)
  \/ FewErrors /\ StreamReadError
  \/ FewErrors /\ StreamError
  \/ EmitCallback
  \/ Tick

SpecErrors == Init /\ [][NextErrors]_vars

(***************************************************************************)
(* SpecBackoff: the connection cycle alone, failing at any of its awaits   *)
(* up to MaxFailures times, with successful health probes in between.      *)
(***************************************************************************)
NextBackoff ==
  \/ RetryTimer
  \/ \E o \in {"healthy", "unhealthy", "error"} : HealthResponse(o)
  \/ \E r \in {Failed, Array(<< >>)} : SessionsResponse(r)
  \/ \E ok \in BOOLEAN : StreamOpen(ok)
  \/ StreamReadError

SpecBackoff == Init /\ [][NextBackoff]_vars

(***************************************************************************)
(* SpecCycle: the timers of the connection cycle.  Every way a cycle can   *)
(* end (a failure at any of its awaits, or the end of the stream), with    *)
(* the poll ticks that the interval timer starts                           *)
(***************************************************************************)
NextCycle ==
  \/ RetryTimer
  \/ \E o \in {"healthy", "unhealthy", "error"} : HealthResponse(o)
  \/ \E r \in {Failed, NotArray, Array(<< >>), Array(<< 1 >>)} : SessionsResponse(r)
  \/ \E r \in {Failed, Array(<< >>)} : BackfillResponse(r)
  \/ \E ok \in BOOLEAN : StreamOpen(ok)
  \/ StreamReadError
  \/ StreamDone
  \/ PollTimer(1)
  \/ \E r \in {Failed, Array(<< >>), Array(<< 1 >>)} : PollSessionsResponse(1, r)
  \/ \E r \in {Failed, Array(<< >>)} : PollMessagesResponse(1, r)

SpecCycle == Init /\ [][NextCycle]_vars

(***************************************************************************)
(* SpecStream: the stream loop.  The server sends any text of at most      *)
(* MaxTextLen characters, cut into chunks in every way.                    *)
(***************************************************************************)
NextStream ==
  \/ HealthResponse("healthy")
  \/ SessionsResponse(Array(<< >>))
  \/ StreamOpen(TRUE)
  \/ \E n \in 1..(MaxTextLen - Len(hist.text)) :
       \E chunk \in [1..n -> Chars] : StreamChunk(chunk)

SpecStream == Init /\ [][NextStream]_vars

(***************************************************************************)
(* SpecPass: the passes over the session list.  Two sessions; each         *)
(* history fetch fails, answers no array, or answers completed assistant   *)
(* messages; the stream delivers such messages; the stream read fails      *)
(* once, so that one reconnect follows.                                    *)
(***************************************************************************)
Histories ==
  {Failed, NotArray, Array(<< >>), Array(<< Msg(1), Msg(2) >>)}
    \cup { Array(<< Msg(i) >>) : i \in MsgIds }

NextPass ==
  \/ RetryTimer
  \/ HealthResponse("healthy")
  \/ SessionsResponse(Array(<< 1, 2 >>))
  \/ \E r \in Histories : BackfillResponse(r)
  \/ StreamOpen(TRUE)
  \/ hist.faults = 0 /\ StreamReadError
  \/ \E i \in MsgIds : StreamMessage(Msg(i))
  \/ PollTimer(1)
  \/ PollSessionsResponse(1, Array(<< 1, 2 >>))
  \/ \E r \in Histories : PollMessagesResponse(1, r)

SpecPass == Init /\ [][NextPass]_vars

(***************************************************************************)
(* Overlapping observers: one connection, the stream and two poll ticks    *)
(* that are in flight at the same time, all three seeing the same messages *)
(***************************************************************************)
OverlapHistories ==
  { Array(<< Msg(i) >>) : i \in MsgIds } \cup { Array(<< Msg(1), Msg(2) >>) }

NextOverlap ==
  \/ HealthResponse("healthy")
  \/ SessionsResponse(Array(<< 1 >>))
  \/ BackfillResponse(Array(<< >>))
  \/ StreamOpen(TRUE)
  \/ \E i \in MsgIds : StreamMessage(Msg(i))
  \/ \E t \in Ticks : PollTimer(t)
  \/ \E t \in Ticks : PollSessionsResponse(t, Array(<< 1 >>))
  \/ \E t \in Ticks : \E r \in OverlapHistories : PollMessagesResponse(t, r)

SpecOverlap == Init /\ [][NextOverlap]_vars

(***************************************************************************)
(* Event payloads and tool usage: one session whose history holds one      *)
(* message with one tool part, reconnects, and stream events of every      *)
(* dispatched type in the flat shape and nested under info                 *)
(***************************************************************************)
\* the two shapes of a payload
Shapes(fields) == {fields, Nested(fields)}

\* the payload of a session.created or session.deleted event
SessionFields == [id : SessIds]

\* the payload of a message event, and the message processMessage reads from it
MessageFields ==
  [id : {1, 2}, role : {"assistant"}, finish : BOOLEAN, hasTokens : {TRUE}]
messageOf(properties) ==
  LET i == normalise(properties)
  IN [info |-> TRUE, id |-> i.id, role |-> i.role, finish |-> i.finish,
      hasTokens |-> i.hasTokens]

created(properties) == StreamSessionCreated(TRUE, normalise(properties).id)
updated(properties) == StreamSessionUpdated(normalise(properties))
deleted(properties) == StreamSessionDeleted(normalise(properties).id)
message(properties) == StreamMessage(messageOf(properties))

NextTools ==
  \/ RetryTimer
  \/ HealthResponse("healthy")
  \/ SessionsResponse(Array(<< 1 >>))
  \/ \E l \in {<< >>, << ToolMsg(1) >>} : BackfillResponse(Array(l))
  \/ StreamOpen(TRUE)
  \/ hist.faults < MaxReconnects /\ StreamReadError
  \/ \E f \in SessionFields : \E p \in Shapes(f) : created(p)
  \/ \E f \in TitleUpdates : \E p \in Shapes(f) : updated(p)
  \/ \E f \in SessionFields : \E p \in Shapes(f) : deleted(p)
  \/ \E f \in MessageFields : \E p \in Shapes(f) : message(p)
  \/ \E f \in PartFields : \E p \in Shapes(f) : StreamPart(p)

SpecTools == Init /\ [][NextTools]_vars

(***************************************************************************)
(* SpecUpdates: session metadata.  Sessions are registered by backfill,    *)
(* updated and deleted by stream events, and reset by a reconnect.         *)
(***************************************************************************)
NextUpdates ==
  \/ RetryTimer
  \/ HealthResponse("healthy")
  \/ \E l \in {<< 1 >>, << 1, 2 >>} : SessionsResponse(Array(l))
  \/ BackfillResponse(Array(<< >>))
  \/ StreamOpen(TRUE)
  \/ hist.faults < MaxReconnects /\ StreamReadError
  \/ \E ev \in UpdateEvents : StreamSessionUpdated(ev)
  \/ \E s \in SessIds : StreamSessionDeleted(s)

SpecUpdates == Init /\ [][NextUpdates]_vars


(***************************************************************************)
(* Claims                                                                  *)
(***************************************************************************)
TotalMessages == messageCounter["historical"] + messageCounter["live"]
TotalTokens(type) == tokenCounter["historical"][type] + tokenCounter["live"][type]
CountedKeys == { k \in Keys : hist.counted[k] > 0 }

\* the amount of one token type in the usage of message id
UsageOf(id, type) ==
  LET t == TokensOf(id) IN
  CASE type = "input" -> t.input
    [] type = "output" -> t.output
    [] type = "cacheRead" -> t.cacheRead
    [] type = "cacheCreation" -> t.cacheWrite
    [] OTHER -> t.reasoning

RECURSIVE UsageSum(_, _)
UsageSum(keys, type) ==
  IF keys = {} THEN 0
  ELSE LET k == CHOOSE x \in keys : TRUE
       IN UsageOf(k[1], type) + UsageSum(keys \ {k}, type)

\* C1: in every reachable state each message identity (id, role) has
\* contributed to the cumulative message and token counters at most once.
C1_CountedAtMostOnce == \A k \in Keys : hist.counted[k] <= 1

\* C2: while only completed assistant messages with token usage have been
\* counted, and no backfill total is waiting to be emitted, every counted
\* message has raised the message counter by exactly 1 and the token counters
\* by exactly its input, output, cache-read, cache-write and reasoning amounts,
\* whichever channel counted it.
C2_ExactContribution ==
  (clPc # "backfill" /\ ~hist.ineligible) =>
     /\ \A k \in Keys : hist.counted[k] <= 1
     /\ TotalMessages = Cardinality(CountedKeys)
     /\ \A type \in TokenTypes : TotalTokens(type) = UsageSum(CountedKeys, type)

\* C3: a message that is not an assistant message, or has no completion
\* marker, or has no token data is never counted, on any channel.
C3_IneligibleNeverCounted == ~hist.ineligible

\* C4: at every yield point the cumulative value of the active-session
\* up/down counter equals the number of session ids in the registry.
C4_GaugeEqualsRegistry == activeSessionsGauge = Cardinality(activeSessions)

\* C5: when a reconnect has registered the server's sessions again and the
\* registry is the one it was when the connection was lost, the gauge has the
\* value it had then, and it carries no residue: it equals the registry's size.
C5_ReconnectNetZero ==
  [][ ( /\ clPc = "sessions"
        /\ clPc' \in {"backfill", "open"}
        /\ hist.refValid
        /\ activeSessions' = hist.refSet )
      => ( /\ activeSessionsGauge' = hist.refGauge
           /\ activeSessionsGauge' = Cardinality(activeSessions') ) ]_vars

\* C6: there is no reachable state in which connectAndListen has stopped
\* streaming (the reader reported done and the function returned) and no
\* retry is pending.
C6_StreamEndRetries == ~(clPc = "returned" /\ retryTimers = 0)

\* C7: every failure of the connect-and-listen cycle sets the liveness value
\* to 0, leaves no poll timer armed, appends one error observation of type
\* "connection" (within the cap), adds 1 to the error counter of type
\* "connection" and schedules exactly one retry.
C7_FailureHandling ==
  [][ hist'.faults = hist.faults + 1
      => ( /\ isServiceRunning' = 0
           /\ pollInterval' = FALSE
           /\ pollTimers' = 0
           /\ recentErrors' =
                LastN(Append(recentErrors, [timestamp |-> now, type |-> "connection"]),
                      MAX_ERRORS)
           /\ errorCounter' = [errorCounter EXCEPT !["connection"] = @ + 1]
           /\ retryTimers' = retryTimers + 1
           /\ retryTimers' = 1
           /\ clPc' = "backoff" ) ]_vars

\* C7 witness: the stream read failed while a poll timer was armed, and the
\* failure handling has run.
C7_Witness ==
  /\ hist.lastFault = "read"
  /\ clPc = "backoff"
  /\ retryTimers = 1
  /\ pollTimers = 0
  /\ isServiceRunning = 0
  /\ errorCounter["connection"] >= 2

\* C8: after a step in which the eviction threshold logic has run (a stream
\* message inserted a key, or a poll tick ended), the ledger holds at most
\* LEDGER_LIMIT keys, and a key a stream message inserted is in the ledger.
C8_LedgerBounded ==
  [][ ( \/ (pollPc[1] = "msgs" /\ pollPc'[1] = "idle")
        \/ ( /\ clPc = "reading"
             /\ UNCHANGED pollVars
             /\ processedMessages' # processedMessages ) )
      => ( /\ Len(processedMessages') <= LEDGER_LIMIT
           /\ (UNCHANGED pollVars =>
                 ~Has(processedMessages, processedMessages'[Len(processedMessages')])) ) ]_vars


\* the observations of log that are not older than the retention window at time t
WithinWindow(log, t) ==
  LET fresh(e) == t - e.timestamp <= ERROR_RETENTION_MS IN SelectSeq(log, fresh)

\* C9 as claimed: the buffer never holds more than MAX_ERRORS observations,
\* and once more than MAX_ERRORS have been inserted it holds exactly the
\* MAX_ERRORS most recently inserted ones, in insertion order.
C9_LastHundred ==
  /\ Len(recentErrors) <= MAX_ERRORS
  /\ Len(hist.errLog) > MAX_ERRORS => recentErrors = LastN(hist.errLog, MAX_ERRORS)

\* C9 amended: the buffer never holds more than MAX_ERRORS observations; it
\* holds, in insertion order, exactly those of the MAX_ERRORS most recently
\* inserted observations that were not older than the retention window at the
\* most recent emission (all of them when nothing has been pruned).
C9_LastHundredUnpruned ==
  /\ Len(recentErrors) <= MAX_ERRORS
  /\ recentErrors = WithinWindow(LastN(hist.errLog, MAX_ERRORS), hist.emitTime)

\* C9 witness: more than MAX_ERRORS observations of both types were inserted
\* and the buffer is full.
C9_Witness ==
  /\ Len(hist.errLog) > MAX_ERRORS
  /\ Len(recentErrors) = MAX_ERRORS
  /\ { recentErrors[i].type : i \in 1..Len(recentErrors) } = ErrorTypes

\* C10: an emission at time t reports exactly the observations retained under
\* the count cap whose age t - T is at most the retention window, so one
\* captured at T is reported at T + window - 1 and at no time from
\* T + window + 1 on; and what the emission leaves in the buffer is what it
\* reported.
C10_EmissionWindow ==
  hist.emitTime >= 0 =>
    /\ hist.emitted =
         WithinWindow(LastN(SubSeq(hist.errLog, 1, hist.emitLogLen), MAX_ERRORS),
                      hist.emitTime)
    /\ (Len(hist.errLog) = hist.emitLogLen => recentErrors = hist.emitted)

\* C10 witness: one emission reported an observation of age window - 1 and
\* left out one of age window + 1.
C10_Witness ==
  /\ hist.emitTime >= 0
  /\ \E i \in 1..Len(hist.emitted) :
       hist.emitTime - hist.emitted[i].timestamp = ERROR_RETENTION_MS - 1
  /\ \E i \in 1..hist.emitLogLen :
       /\ hist.emitTime - hist.errLog[i].timestamp = ERROR_RETENTION_MS + 1
       /\ hist.errLog[i] \notin Range(hist.emitted)
       /\ i > hist.emitLogLen - MAX_ERRORS


\* C11: a session.updated event for a registered session overwrites title,
\* directory or slug only with a non-empty value it carries; every field it
\* does not carry keeps its value, every other session's metadata is
\* untouched, and the registry's key set and the active-session gauge are
\* unchanged.  An event without id or for an unregistered id changes nothing.
C11_PartialUpdate ==
  [][ \A ev \in UpdateEvents :
        StreamSessionUpdated(ev) =>
          /\ activeSessions' = activeSessions
          /\ activeSessionsGauge' = activeSessionsGauge
          /\ DOMAIN sessionMetadata' = DOMAIN sessionMetadata
          /\ \A s \in DOMAIN sessionMetadata :
               LET old == sessionMetadata[s]
                   new == sessionMetadata'[s]
               IN IF ev.hasId /\ s = ev.id
                    THEN /\ new.title = (IF ev.title = "" THEN old.title ELSE ev.title)
                         /\ new.directory =
                              (IF ev.directory = "" THEN old.directory ELSE ev.directory)
                         /\ new.slug = (IF ev.slug = "" THEN old.slug ELSE ev.slug)
                    ELSE new = old ]_vars

\* C11 witness: an update carrying only a title has changed the title of a
\* registered session and left its directory and slug as they were.
C11_Witness ==
  \E s \in DOMAIN sessionMetadata :
    /\ s \in activeSessions
    /\ sessionMetadata[s].title = "B"
    /\ sessionMetadata[s].directory = SessionEntry(s).directory
    /\ sessionMetadata[s].slug = SessionEntry(s).slug


\* C12: the step that enters a fresh connection after a successful health
\* probe lowers the active-session gauge by exactly the number of sessions
\* tracked before it and empties the registry and its metadata, and leaves
\* the dedup ledger and the error buffer as they were.
C12_ResetOnReconnect ==
  [][ (clPc = "health" /\ clPc' = "sessions")
      => ( /\ activeSessionsGauge' = activeSessionsGauge - Cardinality(activeSessions)
           /\ activeSessions' = {}
           /\ DOMAIN sessionMetadata' = {}
           /\ processedMessages' = processedMessages
           /\ recentErrors' = recentErrors ) ]_vars

\* C12 witness: the connection was lost with two sessions tracked, a
\* non-empty ledger and a recorded error; the reconnect's health probe has
\* succeeded and the reset has run.
C12_Witness ==
  /\ clPc = "sessions"
  /\ hist.refValid
  /\ Cardinality(hist.refSet) = 2
  /\ activeSessions = {}
  /\ activeSessionsGauge = hist.refGauge - 2
  /\ processedMessages # << >>
  /\ recentErrors # << >>


\* C13: the session-creation counter never exceeds the number of distinct
\* session ids: every observation of a session carries an id of SessIds, and
\* each id is counted at most once however often it is observed again.
C13_SessionCountedOnce == sessionCounter <= Cardinality(SessIds)


\* the scenario of C14 has happened on the first connection: backfill counted
\* messages 1 and 2 and has emitted its totals, a live channel counted
\* message 3, and nothing else was counted
BackfilledTwoThenOneLive ==
  /\ hist.faults = 0
  /\ clPc = "reading"
  /\ hist.backfilled = { << 1, "assistant" >>, << 2, "assistant" >> }
  /\ \A k \in Keys :
       hist.counted[k] = (IF k[2] = "assistant" /\ k[1] \in {1, 2, 3} THEN 1 ELSE 0)

\* C14: (1) after backfill has counted two completed assistant messages
\* (10+5 and 7+3 tokens) and a live channel a third, the historical message
\* count is 2 with input 17 and output 8 and the live message count is 1;
\* (2) a step of the backfill loop never changes a live-labelled counter, and
\* only the step that ends backfill changes a historical-labelled one, so a
\* stream or poll step never does; (3) no step counts a message whose key is
\* in the ledger, so a replayed stream frame changes no counter.
C14_Provenance ==
  /\ [](BackfilledTwoThenOneLive =>
          /\ messageCounter["historical"] = 2
          /\ tokenCounter["historical"]["input"] = 17
          /\ tokenCounter["historical"]["output"] = 8
          /\ messageCounter["live"] = 1)
  /\ [][ /\ ( \/ messageCounter'["live"] # messageCounter["live"]
              \/ tokenCounter'["live"] # tokenCounter["live"] )
             => UNCHANGED << clPc, bfIndex >>
         /\ ( \/ messageCounter'["historical"] # messageCounter["historical"]
              \/ tokenCounter'["historical"] # tokenCounter["historical"] )
             => (clPc = "backfill" /\ clPc' = "open")
         /\ \A k \in Keys :
              hist'.counted[k] # hist.counted[k] => ~Has(processedMessages, k) ]_vars

\* C14 witness: the scenario has happened and the stream's frame for message
\* 3 is in the ledger, so that a replay of it is the case of part (3).
C14_Witness ==
  /\ BackfilledTwoThenOneLive
  /\ Has(processedMessages, << 3, "assistant" >>)
  /\ messageCounter["historical"] = 2
  /\ messageCounter["live"] = 1


\* the connection state: liveness, reconnect attempts, poll timer, error
\* buffer and counter, pending retries and the position of connectAndListen
connectionState ==
  << isServiceRunning, reconnectAttempts, pollInterval, pollTimers, recentErrors,
     errorCounter, retryTimers, clPc >>

\* C15: a poll tick whose session-list fetch fails ends there (the tick is
\* idle again, nothing escapes it), and neither that step nor a failed
\* history fetch of a tick changes the liveness value, the reconnect-attempt
\* counter, the poll timer, the error buffer or the error counter, schedules
\* a retry, or moves the connection cycle into failure handling.
C15_PollFailureContained ==
  [][ /\ PollSessionsResponse(1, Failed)
         => (pollPc'[1] = "idle" /\ UNCHANGED connectionState /\ hist'.faults = hist.faults)
      /\ PollMessagesResponse(1, Failed)
         => (UNCHANGED connectionState /\ hist'.faults = hist.faults) ]_vars

\* C15 witness: the session-list fetch of a tick failed while the stream was
\* being read: the tick is over, the service still counts as up, the poll
\* timer is still armed and no retry is pending.
C15_Witness ==
  /\ hist.pollFailed
  /\ pollPc[1] = "idle"
  /\ clPc = "reading"
  /\ isServiceRunning = 1
  /\ pollInterval /\ pollTimers = 1
  /\ retryTimers = 0
  /\ recentErrors = << >>


\* C16: a failed history fetch does not abort the pass it belongs to.  In
\* backfill the loop goes on to the next session with its totals intact, or,
\* after the last session, emits the totals and goes on to open the stream,
\* and every session of the list is registered.  In a poll tick the next
\* session of the list is registered and its history awaited, or the tick
\* ends.  Neither runs the failure handling of the connection cycle.
C16_FailedHistorySkipped ==
  [][ /\ BackfillResponse(Failed)
         => ( /\ hist'.faults = hist.faults
              /\ UNCHANGED << isServiceRunning, reconnectAttempts, recentErrors,
                              errorCounter, retryTimers >>
              /\ Range(sessions) \subseteq activeSessions'
              /\ IF bfIndex < Len(sessions)
                   THEN /\ clPc' = "backfill"
                        /\ bfIndex' = bfIndex + 1
                        /\ UNCHANGED << sessions, totalMessages, totalTokens >>
                   ELSE /\ clPc' = "open"
                        /\ messageCounter'["historical"] =
                             messageCounter["historical"] + totalMessages )
      /\ PollMessagesResponse(1, Failed)
         => ( /\ hist'.faults = hist.faults
              /\ UNCHANGED << isServiceRunning, reconnectAttempts, recentErrors,
                              errorCounter, retryTimers, clPc >>
              /\ IF pollIndex[1] < Len(pollList[1])
                   THEN /\ pollPc'[1] = "msgs"
                        /\ pollIndex'[1] = pollIndex[1] + 1
                        /\ UNCHANGED pollList
                        /\ pollList[1][pollIndex[1] + 1] \in activeSessions'
                   ELSE pollPc'[1] = "idle" ) ]_vars

\* C16 witness: on the first connection the history fetch of session 1
\* failed in backfill and in a poll tick; both passes went on to session 2,
\* backfill counted a message of it, and a live channel counted another.
C16_Witness ==
  /\ hist.faults = 0
  /\ clPc = "reading"
  /\ pollPc[1] = "idle"
  /\ activeSessions = {1, 2}
  /\ hist.skipped.backfill = {1}
  /\ hist.skipped.poll = {1}
  /\ messageCounter["historical"] = 1
  /\ messageCounter["live"] = 1


\* q starts with p
IsPrefix(p, q) == Len(p) <= Len(q) /\ SubSeq(q, 1, Len(p)) = p

\* q is p with n keys inserted after it and then, the size being over
\* LEDGER_LIMIT, without exactly the LEDGER_EVICT keys inserted earliest:
\* every other key of p is in q, in the order of insertion
EvictedOldest(p, q) ==
  LET n == Len(q) - Len(p) + LEDGER_EVICT IN
  /\ n >= 0
  /\ Len(p) + n > LEDGER_LIMIT
  /\ \A i \in 1..Len(p) :
       IF i <= LEDGER_EVICT THEN p[i] \notin Range(q)
                           ELSE q[i - LEDGER_EVICT] = p[i]

\* C18: the ledger keeps its keys in insertion order: a step either only
\* inserts keys after the ones it holds (a has-check or the observation of a
\* key it holds changes nothing), or it evicts, and then the size had passed
\* LEDGER_LIMIT and exactly the LEDGER_EVICT keys inserted earliest are gone
\* while every key inserted after them is kept.
C18_EvictsOldest ==
  [][ \/ IsPrefix(processedMessages, processedMessages')
      \/ EvictedOldest(processedMessages, processedMessages') ]_vars

\* C18 witness: messages 1, 2 and 3 were each counted once, message 1 is no
\* longer in the ledger, and messages 2 and 3 are, in that order.
C18_Witness ==
  /\ \A i \in {1, 2, 3} : hist.counted[<< i, "assistant" >>] = 1
  /\ processedMessages = << << 2, "assistant" >>, << 3, "assistant" >> >>


\* C19: a failure raises the reconnect-attempt counter by one and schedules
\* the retry after min(1000 * 2^attempt, 30000) ms, attempt being the raised
\* counter; that delay is at most 30000 and not below the delay of the
\* failure before it when no health probe succeeded in between.  Only a
\* failure and a successful health probe change the counter, and the probe
\* sets it to 0.
C19_Backoff ==
  [][ /\ hist'.faults = hist.faults + 1
         => ( /\ reconnectAttempts' = reconnectAttempts + 1
              /\ retryTimers' = retryTimers + 1
              /\ hist'.delay = Min(1000 * (2 ^ reconnectAttempts'), 30000)
              /\ hist'.delay <= 30000
              /\ hist'.delay >= hist.delay )
      /\ reconnectAttempts' # reconnectAttempts
         => ( \/ hist'.faults = hist.faults + 1
              \/ (clPc = "health" /\ clPc' = "sessions") )
      /\ (clPc = "health" /\ clPc' = "sessions")
         => (reconnectAttempts' = 0 /\ isServiceRunning' = 1) ]_vars

\* C19 witness: after a failure with the delay at its cap another failure
\* followed with no successful probe between them, and its delay is the cap.
C19_Witness ==
  /\ clPc = "backoff"
  /\ reconnectAttempts = 6
  /\ hist.delay = 30000


\* the positions of the newlines of a text, and the k-th of them
NewlinesOf(text) == { i \in 1..Len(text) : text[i] = NL }
NthNewline(text, k) ==
  IF k = 0 THEN 0
  ELSE CHOOSE i \in NewlinesOf(text) :
         Cardinality({ j \in NewlinesOf(text) : j <= i }) = k

\* the newline-terminated lines of a text, in order, and what follows the
\* last newline
LinesOf(text) ==
  [ k \in 1..Cardinality(NewlinesOf(text)) |->
      SubSeq(text, NthNewline(text, k - 1) + 1, NthNewline(text, k) - 1) ]
FragmentOf(text) ==
  SubSeq(text, NthNewline(text, Cardinality(NewlinesOf(text))) + 1, Len(text))

\* the number of lines of a text that are a well-formed error event
ErrorEventsIn(text) ==
  Cardinality({ k \in 1..Len(LinesOf(text)) : LinesOf(text)[k] = << "d", "e" >> })

\* C17: while a stream is read, the engine state is what the well-formed
\* event lines of the text so far make it, wherever they stand in the text:
\* a line without the data marker, a data line that does not parse and a
\* record of unknown type change nothing (registry, ledger, counters, error
\* buffer, liveness), the stream is still being read after them, and every
\* well-formed line after them has been dispatched.
C17_BadLinesIgnored ==
  hist.text # << >> =>
    /\ clPc = "reading"
    /\ isServiceRunning = 1
    /\ retryTimers = 0
    /\ activeSessions = {} /\ activeSessionsGauge = 0 /\ sessionCounter = 0
    /\ processedMessages = << >>
    /\ \A p \in Provenance : messageCounter[p] = 0 /\ tokenCounter[p] = ZeroTokens
    /\ errorCounter["connection"] = 0
    /\ errorCounter["upstream"] = ErrorEventsIn(hist.text)
    /\ Len(recentErrors) = Min(ErrorEventsIn(hist.text), MAX_ERRORS)
    /\ \A i \in 1..Len(recentErrors) : recentErrors[i].type = "upstream"

\* C17 witness: the text so far has a line without the marker, then a data
\* line that does not parse, then a well-formed error event, which was
\* dispatched.
C17_Witness ==
  /\ hist.lines = << << "e" >>, << "d" >>, << "d", "e" >> >>
  /\ errorCounter["upstream"] = 1
  /\ clPc = "reading"

\* C20: while a stream is read, the lines handed to the dispatcher so far are
\* the newline-terminated lines of the text received so far, each once and in
\* order, and the carry-over buffer is what follows the last newline --
\* whatever the chunks were in which the text arrived.
C20_ChunkingIndependent ==
  clPc = "reading" =>
    /\ hist.lines = LinesOf(hist.text)
    /\ buffer = FragmentOf(hist.text)

\* C20 witness: a chunk ended inside a line, two lines were handed over and
\* an unterminated fragment is held back.
C20_Witness ==
  /\ clPc = "reading"
  /\ hist.split
  /\ Len(hist.lines) = 2
  /\ hist.lines[1] # << >> /\ hist.lines[2] # << >>
  /\ buffer # << >>


\* C21: the ledger lookup and the insertion of a key happen in one step of one
\* observer.  With the stream and two overlapping poll ticks observing the
\* same eligible messages: (1) as long as nothing can have been evicted (no
\* more than LEDGER_LIMIT countings so far) no identity is counted twice;
\* (2) a step that counts an identity counts it once, finds its key absent
\* and leaves it in the ledger; (3) after a step in which the stream or a
\* tick has observed an eligible message, the message has been counted and
\* its key is the ledger's or was evicted by that step's own threshold logic.
C21_AtomicCheckInsert ==
  /\ [](MessageTotal <= LEDGER_LIMIT => \A k \in Keys : hist.counted[k] <= 1)
  /\ [][ /\ \A k \in Keys :
              hist'.counted[k] # hist.counted[k]
                => ( /\ hist'.counted[k] = hist.counted[k] + 1
                     /\ ~Has(processedMessages, k)
                     /\ Has(processedMessages', k) )
         /\ \A i \in MsgIds :
              ( \/ StreamMessage(Msg(i))
                \/ \E t \in Ticks : PollMessagesResponse(t, Array(<< Msg(i) >>)) )
                => ( /\ hist'.counted[msgKey(Msg(i))] >= 1
                     /\ ( \/ Has(processedMessages', msgKey(Msg(i)))
                          \/ Len(processedMessages) >= LEDGER_LIMIT ) ) ]_vars

\* C21 witness: both poll ticks are suspended at the await of a history, so
\* they overlap, while the stream is being read; message 1 has been counted
\* once and its key is in the ledger, and so has message 2.
C21_Witness ==
  /\ clPc = "reading"
  /\ pollPc[1] = "msgs" /\ pollPc[2] = "msgs"
  /\ hist.counted[msgKey(Msg(1))] = 1
  /\ hist.counted[msgKey(Msg(2))] = 1
  /\ Has(processedMessages, msgKey(Msg(1)))
  /\ messageCounter["live"] = 2


\* C22: for every dispatched event type, a step that is the handling of an
\* event in the flat shape is also the handling of the event that carries
\* the same fields nested under info, and the other way round: both shapes
\* change the registry, the ledger and the counters in the same way.
C22_NestedEqualsFlat ==
  [][ /\ \A f \in SessionFields : created(f) <=> created(Nested(f))
      /\ \A f \in TitleUpdates : updated(f) <=> updated(Nested(f))
      /\ \A f \in SessionFields : deleted(f) <=> deleted(Nested(f))
      /\ \A f \in MessageFields : message(f) <=> message(Nested(f))
      /\ \A f \in PartFields : StreamPart(f) <=> StreamPart(Nested(f)) ]_vars

\* the tool parts there are to observe: the ones in the server's histories,
\* and the part frames of the stream that processPart counts
ToolPartsOnServer == toolParts(ToolMsg(1))
ToolFrames == { f \in PartFields : f.type \in {"tool-invocation", "tool-result"} }

\* C23: the tool usage counter is not inflated by re-observation: the
\* historical count never exceeds the number of tool parts in the server's
\* histories, however often backfill reads them, and the live count never
\* exceeds the number of distinct part frames, however often one is replayed.
C23_ToolsCountedOnce ==
  /\ toolUseCounter["historical"] <= ToolPartsOnServer
  /\ toolUseCounter["live"] <= Cardinality(ToolFrames)


\* C24: an observation of a message that is not eligible (no info, not an
\* assistant message, not finished, or without token usage) puts no key into
\* the ledger, on whichever channel it arrives: the stream, a backfill
\* history or a poll history.  (A message first seen unfinished can then
\* still be counted when it is observed finished.)
C24_IneligibleNotInserted ==
  [][ \A m \in HistoryShapes :
        ( /\ ~Eligible(m)
          /\ ( \/ StreamMessage(m)
               \/ BackfillResponse(Array(<< m >>))
               \/ PollMessagesResponse(1, Array(<< m >>)) ) )
        => \A k \in Keys : Has(processedMessages', k) => Has(processedMessages, k) ]_vars


\* C25: a poll tick that resumes with the session list it fetched earlier
\* does not register a session that was removed from the registry in the
\* meantime, by a session.deleted event or by the reset of a reconnect.
C25_NoStaleRegistration ==
  [][ \A t \in Ticks :
        ( /\ pollPc[t] = "msgs"
          /\ pollIndex[t] < Len(pollList[t])
          /\ pollIndex'[t] = pollIndex[t] + 1
          /\ pollList[t][pollIndex[t] + 1] \in hist.stale[t]
          /\ pollList[t][pollIndex[t] + 1] \notin activeSessions )
        => pollList[t][pollIndex[t] + 1] \notin activeSessions' ]_vars


\* C26: at every yield point the registry and the metadata map are about the
\* same sessions: activeSessions is the set of keys of sessionMetadata.
C26_RegistryKeysAgree == activeSessions = DOMAIN sessionMetadata

\* C26 witness: after a reconnect has reset both, backfill has registered
\* sessions 1 and 2 again, a session.deleted event has removed session 1, an
\* update has retitled session 2, and a poll tick is suspended in its loop.
C26_Witness ==
  /\ hist.faults >= 1
  /\ clPc = "reading"
  /\ pollPc[1] = "msgs"
  /\ activeSessions = {2}
  /\ activeSessionsGauge = 1
  /\ sessionMetadata[2].title = "B"


\* C27: at most one poll timer is armed, an armed timer is the one the
\* handle pollInterval refers to, and none is armed while the connection
\* cycle is backing off, probing health, listing sessions or backfilling,
\* nor after the cycle has returned: a timer is armed only between the end
\* of backfill and the end of streaming.
C27_OnePollTimer ==
  /\ pollTimers <= 1
  /\ pollInterval <=> pollTimers = 1
  /\ clPc \in {"backoff", "health", "sessions", "backfill", "returned"} => pollTimers = 0

\* C27 witness: the stream failed while the timer was armed, and the next
\* cycle is backfilling with no timer armed.
C27_Witness ==
  /\ hist.lastFault = "read"
  /\ hist.refValid
  /\ clPc = "backfill"
  /\ pollTimers = 0
  /\ ~pollInterval

\* C28: at most one connect-and-listen cycle is running or scheduled: never
\* more than one successor is pending, one is pending exactly while the
\* cycle that scheduled it is over (backing off), and the step that
\* schedules it schedules one, ends the cycle and leaves no poll timer armed.
C28_OneCycle ==
  /\ [](retryTimers <= 1 /\ (retryTimers = 1 <=> clPc = "backoff"))
  /\ [][ retryTimers' > retryTimers
           => ( /\ retryTimers' = retryTimers + 1
                /\ clPc # "backoff" /\ clPc' = "backoff"
                /\ pollTimers' = 0 ) ]_vars

\* C28 witness: the successor of a failed cycle has run and failed in turn,
\* while streaming, and its own successor is pending.
C28_Witness ==
  /\ hist.faults = 2
  /\ hist.lastFault = "read"
  /\ clPc = "backoff"
  /\ retryTimers = 1
  /\ reconnectAttempts = 1

====
